---- MODULE Spec2Model ----
(***************************************************************************)
(* A model of the Swetrix extensions SDK host (class SDK, multi-listener   *)
(* variant): the extension loader, the capability surface, the event bus   *)
(* with its pre-initialisation queue and delayed delivery, and the two     *)
(* registries (export data rows, panel tabs).                              *)
(*                                                                         *)
(* Promises, timers and the host hooks are modelled by what the code does  *)
(* with them: one record per _loadExtension promise chain, one status per  *)
(* Promise.all chain of _init, a FIFO of pending setTimeout callbacks      *)
(* (all with the same 300 ms delay), and a log of host hook invocations.   *)
(***************************************************************************)
EXTENDS Integers, Sequences, FiniteSets, TLC

VARIABLES
  disabled,             \* options.disabled
  extensions,           \* this.extensions
  events,               \* this.events: event type -> listeners, in key insertion order
  exportDataRowValues,  \* the array the host field exportDataRowValues refers to
  panelTabValues,       \* this.panelTabValues
  sdkInitialised,       \* this._sdkInitialised
  emitQueue,            \* this._emitQueue
  tasks,                \* the _loadExtension promise chains started so far
  rounds,               \* the Promise.all chains started by _init
  surfaceRows,          \* per chain: the exportDataRowValues property of its surface object
  timers,               \* setTimeout callbacks scheduled by _emitEvent, not yet run
  delivered,            \* listener callbacks that have run, in order
  emitted,              \* every _emitEvent call made by the host, in order
  hookLog               \* invocations of the swetrixCallbacks hooks, in order

vars == <<disabled, extensions, events, exportDataRowValues, panelTabValues,
          sdkInitialised, emitQueue, tasks, rounds, surfaceRows, timers,
          delivered, emitted, hookLog>>

----------------------------------------------------------------------------
(* Bounds of the model *)

MaxEmits == 2

MaxHookCalls == 4

MaxRounds == 2

----------------------------------------------------------------------------
(* Vocabularies *)

\* enum event (a subset of its five members)
EventTypes == {"load", "timeupdate"}

\* enum PanelTab
PanelTab == {"cc", "pg", "lc", "ref", "dv", "br", "os", "so", "me", "ca", "lt", "ce"}

\* the panel ids the modelled extensions use
UsedPanels == {"cc", "pg"}

\* event payloads are opaque to the bus: the host's n-th _emitEvent call carries
\* the payload n, so that every delivery can be traced to its emission
Payload(n) == n

\* listener callbacks an extension may pass; NotAFunction is a non-callable value
Callbacks == {"f", "g"}

NotAFunction == "notfn"

\* export data row names the modelled extensions use
RowNames == {"Export CSV", "Export PDF"}

\* tab contents
TabContents == {"t1", "t2"}

\* extension descriptors {cdnURL, id}; the second id contains the separator
ExtA == [cdnURL |-> "https://cdn/a.js", id |-> "a"]

ExtB == [cdnURL |-> "https://cdn/b.js", id |-> "a-cc"]

ExtensionLists == {<<>>, <<ExtA>>, <<ExtA, ExtB>>}

\* what a fetched extension program does when it is called with its surface:
\* register a listener for "load" and keep the surface, or raise an error
Programs == {"listen", "throw"}

\* programs that use the properties of the surface object other than its
\* functions: "forge" calls every callback found in sdk.events.load with a
\* payload of its own, "hook" calls sdk.swetrixCallbacks.onAddPanelTab directly,
\* "teardown" deletes every key of sdk.events and sets sdk.extensions.length = 0
SurfacePrograms == {"listen", "forge", "hook", "teardown"}

\* the own enumerable properties of the host object, which {...this} copies:
\* the class fields (the arrow function _loadExtension included) and the
\* constructor's parameter properties; prototype methods are not copied
HostOwnFields ==
  {"events", "exportDataRowValues", "panelTabValues", "_sdkInitialised", "_emitQueue",
   "_loadExtension", "extensions", "options", "swetrixCallbacks"}

\* the functions the surface literal sets after the spread
SurfaceFunctions ==
  {"addExportDataRow", "debug", "removeExportDataRow", "addPanelTab", "updatePanelTab",
   "removePanelTab", "addEventListener", "removeEventListener"}

\* the properties the surface literal sets to undefined
SurfaceUndefined == {"_emitEvent", "_destroy", "_loadExtension", "_init", "_emitQueue"}

\* the properties of the surface object that hold a value
SurfaceProps == (HostOwnFields \cup SurfaceFunctions) \ SurfaceUndefined

----------------------------------------------------------------------------
(* Pure helpers *)

\* mutant: the key is the panel id alone
getPanelTabName_PanelOnly(extensionID, name) == name

getPanelTabName(extensionID, name) == extensionID \o "-" \o name

\* Array.prototype.includes
Includes(arr, v) == \E i \in 1..Len(arr) : arr[i] = v

\* arr.filter(value => value !== v)
Without(arr, v) == SelectSeq(arr, LAMBDA x : x # v)

\* mutant: the listeners object of the event type is not spread into the new one
PutListener_Overwrite(ls, extensionID, callback) ==
  <<[id |-> extensionID, cb |-> callback]>>

\* { ...obj, [extensionID]: callback } on the listeners of one event type:
\* an existing key keeps its position, a new key is appended
PutListener(ls, extensionID, callback) ==
  IF \E i \in 1..Len(ls) : ls[i].id = extensionID
  THEN [i \in 1..Len(ls) |->
          IF ls[i].id = extensionID THEN [id |-> extensionID, cb |-> callback] ELSE ls[i]]
  ELSE Append(ls, [id |-> extensionID, cb |-> callback])

\* delete obj[extensionID]
DeleteListener(ls, extensionID) == SelectSeq(ls, LAMBDA l : l.id # extensionID)

\* mutant: an emit schedules the listeners of every event type
Schedule_Broadcast(evs, event, eventData) ==
  [i \in 1..Len(evs["load"] \o evs["timeupdate"]) |->
     [id |-> (evs["load"] \o evs["timeupdate"])[i].id,
      cb |-> (evs["load"] \o evs["timeupdate"])[i].cb,
      event |-> event, eventData |-> eventData]]

\* the setTimeout calls of one _emitEvent in the initialised state:
\* one per Object.values(this.events[event]) entry, in key order
Schedule(evs, event, eventData) ==
  [i \in 1..Len(evs[event]) |->
     [id |-> evs[event][i].id, cb |-> evs[event][i].cb,
      event |-> event, eventData |-> eventData]]

\* mutant: the queue is flushed last-in first-out
RECURSIVE FlushQueue_Reversed(_, _)
FlushQueue_Reversed(evs, q) ==
  IF q = <<>> THEN <<>>
  ELSE FlushQueue_Reversed(evs, Tail(q)) \o Schedule(evs, Head(q).event, Head(q).eventData)

\* this._emitQueue.forEach(({event, eventData}) => this._emitEvent(event, eventData))
\* with _sdkInitialised already true
RECURSIVE FlushQueue(_, _)
FlushQueue(evs, q) ==
  IF q = <<>> THEN <<>>
  ELSE Schedule(evs, Head(q).event, Head(q).eventData) \o FlushQueue(evs, Tail(q))

\* the promise chains created by this.extensions.map(... _loadExtension ...)
NewTasks(exts, r) ==
  [i \in 1..Len(exts) |->
     [id |-> exts[i].id, cdnURL |-> exts[i].cdnURL, round |-> r,
      st |-> "fetching", prog |-> "none"]]

NoSurface == [has |-> FALSE, shared |-> FALSE, own |-> <<>>]

\* the program of chain t was handed a surface object and keeps it
HasSurface(t) == surfaceRows[t].has

\* mutant: _init does not check _sdkInitialised
AlreadyInitialised_Unchecked == FALSE

\* first guard of _init
AlreadyInitialised == sdkInitialised

\* mutant: _init does not check options.disabled
IsDisabled_Unchecked == FALSE

\* second guard of _init
IsDisabled == disabled

\* mutant: _emitEvent delivers without checking _sdkInitialised
NotInitialisedYet_Unchecked == FALSE

\* guard of _emitEvent
NotInitialisedYet == ~sdkInitialised

\* mutant: the join waits for the first fulfilled chain only (Promise.any)
AllFulfilled_Any(r) ==
  \E t \in 1..Len(tasks) : tasks[t].round = r /\ tasks[t].st = "done"

\* Promise.all(promisified) is fulfilled: every chain of the round is fulfilled
AllFulfilled(r) ==
  \A t \in 1..Len(tasks) : tasks[t].round = r => tasks[t].st = "done"

----------------------------------------------------------------------------
(* Initial state: the state after `new SDK(extensions, options, callbacks)`, *)
(* whose constructor calls _init once.                                       *)

Init ==
  /\ disabled \in BOOLEAN
  /\ extensions \in ExtensionLists
  /\ events = [e \in EventTypes |-> <<>>]
  /\ exportDataRowValues = <<>>
  /\ panelTabValues = <<>>
  /\ sdkInitialised = FALSE
  /\ emitQueue = <<>>
  /\ tasks = IF IsDisabled THEN <<>> ELSE NewTasks(extensions, 1)
  /\ rounds = IF IsDisabled THEN <<>> ELSE <<"pending">>
  /\ surfaceRows = [t \in 1..Len(tasks) |-> NoSurface]
  /\ timers = <<>>
  /\ delivered = <<>>
  /\ emitted = <<>>
  /\ hookLog = <<>>

----------------------------------------------------------------------------
(* Loader *)

\* fetch(cdnURL) settles and the first .then runs: a non-ok response is replaced
\* by the dummy script, an ok response by its text; a transport error rejects
\* the chain (there is no catch handler)
FetchSettle(t, outcome, prog) ==
  /\ tasks[t].st = "fetching"
  /\ tasks' = [tasks EXCEPT ![t] =
        CASE outcome = "ok"    -> [@ EXCEPT !.st = "code", !.prog = prog]
          [] outcome = "notok" -> [@ EXCEPT !.st = "code", !.prog = "dummy"]
          [] outcome = "error" -> [@ EXCEPT !.st = "failed", !.prog = "none"]]
  /\ UNCHANGED <<disabled, extensions, events, exportDataRowValues, panelTabValues,
                 sdkInitialised, emitQueue, rounds, surfaceRows, timers,
                 delivered, emitted, hookLog>>

\* mutant: a rejected sibling chain keeps the other chains from running their program
CodeReady_UnlessSiblingFailed(t) ==
  /\ tasks[t].st = "code"
  /\ \A u \in 1..Len(tasks) : tasks[u].st # "failed"

\* the second .then of chain t is reached: fetch and the first .then fulfilled
CodeReady(t) == tasks[t].st = "code"

\* the payload a "forge" program passes to the callbacks it finds
ForgedData == Payload(0)

\* the calls callback(ForgedData) a "forge" program makes, one per value of
\* sdk.events.load, which is the host's own listeners object
ForgedCalls(evs) ==
  [i \in 1..Len(evs["load"]) |->
     [id |-> evs["load"][i].id, cb |-> evs["load"][i].cb,
      event |-> "load", eventData |-> ForgedData]]

\* the second .then: eval(code)({...this, ...}) runs the program with a new
\* surface object. The dummy script ignores it; "listen" registers a listener
\* for "load" through it; "throw" raises, which rejects the chain; the
\* programs of SurfacePrograms use the host's objects that the spread copied
\* into the surface by reference.
Execute(t) ==
  /\ CodeReady(t)
  /\ tasks' = [tasks EXCEPT ![t].st =
                 IF tasks[t].prog = "throw" THEN "threw" ELSE "done"]
  /\ surfaceRows' = [surfaceRows EXCEPT ![t] =
                 IF tasks[t].prog = "listen"
                 THEN [has |-> TRUE, shared |-> TRUE, own |-> <<>>]
                 ELSE @]
  /\ events' =
       CASE tasks[t].prog = "listen" ->
              [events EXCEPT !["load"] = PutListener(@, tasks[t].id, "f")]
         [] tasks[t].prog = "teardown" /\ "events" \in SurfaceProps ->
              [e \in EventTypes |-> <<>>]
         [] OTHER -> events
  /\ extensions' =
       IF tasks[t].prog = "teardown" /\ "extensions" \in SurfaceProps
       THEN <<>> ELSE extensions
  /\ delivered' =
       IF tasks[t].prog = "forge" /\ "events" \in SurfaceProps
       THEN delivered \o ForgedCalls(events) ELSE delivered
  /\ hookLog' =
       IF tasks[t].prog = "hook" /\ "swetrixCallbacks" \in SurfaceProps
       THEN Append(hookLog, [hook |-> "onAddPanelTab",
                             args |-> <<tasks[t].id, "cc", "t1">>])
       ELSE hookLog
  /\ UNCHANGED <<disabled, exportDataRowValues, panelTabValues,
                 sdkInitialised, emitQueue, rounds, timers, emitted>>

\* mutant: the reaction of Promise.all does not empty the queue after the flush
JoinReady_KeepQueue(r) ==
  /\ rounds[r] = "pending"
  /\ AllFulfilled(r)
  /\ rounds' = [rounds EXCEPT ![r] = "joined"]
  /\ sdkInitialised' = TRUE
  /\ timers' = timers \o FlushQueue(events, emitQueue)
  /\ UNCHANGED <<disabled, extensions, events, exportDataRowValues, panelTabValues,
                 tasks, surfaceRows, delivered, emitted, hookLog, emitQueue>>

\* the .then of Promise.all(promisified)
JoinReady(r) ==
  /\ rounds[r] = "pending"
  /\ AllFulfilled(r)
  /\ rounds' = [rounds EXCEPT ![r] = "joined"]
  /\ sdkInitialised' = TRUE
  /\ timers' = timers \o FlushQueue(events, emitQueue)
  /\ emitQueue' = <<>>
  /\ UNCHANGED <<disabled, extensions, events, exportDataRowValues, panelTabValues,
                 tasks, surfaceRows, delivered, emitted, hookLog>>

\* a further call of _init on the same instance
ReInit ==
  IF AlreadyInitialised \/ IsDisabled
  THEN UNCHANGED vars
  ELSE /\ Len(rounds) < MaxRounds
       /\ tasks' = tasks \o NewTasks(extensions, Len(rounds) + 1)
       /\ surfaceRows' = surfaceRows \o [i \in 1..Len(extensions) |-> NoSurface]
       /\ rounds' = Append(rounds, "pending")
       /\ UNCHANGED <<disabled, extensions, events, exportDataRowValues,
                      panelTabValues, sdkInitialised, emitQueue, timers,
                      delivered, emitted, hookLog>>

----------------------------------------------------------------------------
(* Event bus *)

\* _emitEvent(event, eventData), called by the host
EmitEvent(event, eventData) ==
  /\ Len(emitted) < MaxEmits
  /\ emitted' = Append(emitted, [event |-> event, eventData |-> eventData])
  /\ IF NotInitialisedYet
     THEN /\ emitQueue' = Append(emitQueue, [event |-> event, eventData |-> eventData])
          /\ UNCHANGED timers
     ELSE /\ timers' = timers \o Schedule(events, event, eventData)
          /\ UNCHANGED emitQueue
  /\ UNCHANGED <<disabled, extensions, events, exportDataRowValues, panelTabValues,
                 sdkInitialised, tasks, rounds, surfaceRows, delivered, hookLog>>

\* mutant: the timer scheduled last expires first
TimerFire_Lifo ==
  /\ timers # <<>>
  /\ delivered' = Append(delivered, timers[Len(timers)])
  /\ timers' = SubSeq(timers, 1, Len(timers) - 1)
  /\ UNCHANGED <<disabled, extensions, events, exportDataRowValues, panelTabValues,
                 sdkInitialised, emitQueue, tasks, rounds, surfaceRows,
                 emitted, hookLog>>

\* the oldest pending timer expires: callback(eventData) runs
TimerFire ==
  /\ timers # <<>>
  /\ delivered' = Append(delivered, Head(timers))
  /\ timers' = Tail(timers)
  /\ UNCHANGED <<disabled, extensions, events, exportDataRowValues, panelTabValues,
                 sdkInitialised, emitQueue, tasks, rounds, surfaceRows,
                 emitted, hookLog>>

\* mutant: _destroy abandons the promise chains that have not run their program
Destroy_CancelLoading ==
  /\ events' = [e \in EventTypes |-> <<>>]
  /\ extensions' = <<>>
  /\ tasks' = [t \in 1..Len(tasks) |->
                 IF tasks[t].st \in {"fetching", "code"}
                 THEN [tasks[t] EXCEPT !.st = "failed"] ELSE tasks[t]]
  /\ UNCHANGED <<disabled, exportDataRowValues, panelTabValues, sdkInitialised,
                 emitQueue, rounds, surfaceRows, timers, delivered,
                 emitted, hookLog>>

\* mutant: _destroy resets the whole instance
Destroy_Reset ==
  /\ events' = [e \in EventTypes |-> <<>>]
  /\ extensions' = <<>>
  /\ exportDataRowValues' = <<>>
  /\ panelTabValues' = <<>>
  /\ emitQueue' = <<>>
  /\ sdkInitialised' = FALSE
  /\ UNCHANGED <<disabled, tasks, rounds, surfaceRows, timers, delivered,
                 emitted, hookLog>>

\* mutant: _destroy also clears the pending timers
Destroy_CancelTimers ==
  /\ events' = [e \in EventTypes |-> <<>>]
  /\ extensions' = <<>>
  /\ timers' = <<>>
  /\ UNCHANGED <<disabled, exportDataRowValues, panelTabValues, sdkInitialised,
                 emitQueue, tasks, rounds, surfaceRows, delivered,
                 emitted, hookLog>>

\* _destroy()
Destroy ==
  /\ events' = [e \in EventTypes |-> <<>>]
  /\ extensions' = <<>>
  /\ UNCHANGED <<disabled, exportDataRowValues, panelTabValues, sdkInitialised,
                 emitQueue, tasks, rounds, surfaceRows, timers, delivered,
                 emitted, hookLog>>

\* mutant: addEventListener stores the callback without the typeof check
AddEventListener_Unchecked(t, event, callback) ==
  /\ HasSurface(t)
  /\ events' = [events EXCEPT ![event] = PutListener(@, tasks[t].id, callback)]
  /\ UNCHANGED <<disabled, extensions, exportDataRowValues, panelTabValues,
                 sdkInitialised, emitQueue, tasks, rounds, surfaceRows, timers,
                 delivered, emitted, hookLog>>

\* surface.addEventListener(event, callback) of the extension of chain t
AddEventListener(t, event, callback) ==
  /\ HasSurface(t)
  /\ IF callback = NotAFunction
     THEN UNCHANGED events
     ELSE events' = [events EXCEPT ![event] = PutListener(@, tasks[t].id, callback)]
  /\ UNCHANGED <<disabled, extensions, exportDataRowValues, panelTabValues,
                 sdkInitialised, emitQueue, tasks, rounds, surfaceRows, timers,
                 delivered, emitted, hookLog>>

\* surface.removeEventListener(event) of the extension of chain t
RemoveEventListener(t, event) ==
  /\ HasSurface(t)
  /\ events' = [events EXCEPT ![event] = DeleteListener(@, tasks[t].id)]
  /\ UNCHANGED <<disabled, extensions, exportDataRowValues, panelTabValues,
                 sdkInitialised, emitQueue, tasks, rounds, surfaceRows, timers,
                 delivered, emitted, hookLog>>

----------------------------------------------------------------------------
(* Registries *)

\* the array that `this.exportDataRowValues` denotes inside addExportDataRow and
\* removeExportDataRow when they are called as methods of the surface object of
\* chain t: the surface holds the methods unbound, so `this` is the surface, and
\* its exportDataRowValues property was copied from the host by {...this}
RowsOf(t) == IF surfaceRows[t].shared THEN exportDataRowValues ELSE surfaceRows[t].own

\* surface.addExportDataRow(name, onClick)
AddExportDataRow(t, name) ==
  /\ HasSurface(t)
  /\ IF Includes(RowsOf(t), name)
     THEN UNCHANGED <<exportDataRowValues, surfaceRows, hookLog>>
     ELSE /\ Len(hookLog) < MaxHookCalls
          /\ IF surfaceRows[t].shared
             THEN /\ exportDataRowValues' = Append(exportDataRowValues, name)
                  /\ UNCHANGED surfaceRows
             ELSE /\ surfaceRows' = [surfaceRows EXCEPT ![t].own = Append(@, name)]
                  /\ UNCHANGED exportDataRowValues
          /\ hookLog' = Append(hookLog, [hook |-> "onAddExportDataRow", args |-> <<name>>])
  /\ UNCHANGED <<disabled, extensions, events, panelTabValues, sdkInitialised,
                 emitQueue, tasks, rounds, timers, delivered, emitted>>

\* surface.removeExportDataRow(name): the filtered array is assigned to `this`,
\* which is the surface object
RemoveExportDataRow(t, name) ==
  /\ HasSurface(t)
  /\ IF ~Includes(RowsOf(t), name)
     THEN UNCHANGED <<surfaceRows, hookLog>>
     ELSE /\ Len(hookLog) < MaxHookCalls
          /\ surfaceRows' = [surfaceRows EXCEPT ![t] =
                [has |-> TRUE, shared |-> FALSE, own |-> Without(RowsOf(t), name)]]
          /\ hookLog' = Append(hookLog, [hook |-> "onRemoveExportDataRow", args |-> <<name>>])
  /\ UNCHANGED <<disabled, extensions, events, exportDataRowValues, panelTabValues,
                 sdkInitialised, emitQueue, tasks, rounds, timers, delivered, emitted>>

\* surface.addPanelTab(panelID, tabContent, onOpen): the closure made by
\* this.addPanelTab(id) on the host
AddPanelTab(t, panelID, tabContent) ==
  /\ HasSurface(t)
  /\ LET panelName == getPanelTabName(tasks[t].id, panelID) IN
     IF Includes(panelTabValues, panelName)
     THEN UNCHANGED <<panelTabValues, hookLog>>
     ELSE /\ Len(hookLog) < MaxHookCalls
          /\ panelTabValues' = Append(panelTabValues, panelName)
          /\ hookLog' = Append(hookLog, [hook |-> "onAddPanelTab",
                                         args |-> <<tasks[t].id, panelID, tabContent>>])
  /\ UNCHANGED <<disabled, extensions, events, exportDataRowValues, sdkInitialised,
                 emitQueue, tasks, rounds, surfaceRows, timers, delivered, emitted>>

\* mutant: updatePanelTab forwards the content without looking at the registry
UpdatePanelTab_Unchecked(t, panelID, tabContent) ==
  /\ HasSurface(t)
  /\ Len(hookLog) < MaxHookCalls
  /\ hookLog' = Append(hookLog, [hook |-> "onUpdatePanelTab",
                                 args |-> <<tasks[t].id, panelID, tabContent>>])
  /\ UNCHANGED <<disabled, extensions, events, exportDataRowValues, panelTabValues,
                 sdkInitialised, emitQueue, tasks, rounds, surfaceRows, timers,
                 delivered, emitted>>

\* surface.updatePanelTab(panelID, tabContent)
UpdatePanelTab(t, panelID, tabContent) ==
  /\ HasSurface(t)
  /\ LET panelName == getPanelTabName(tasks[t].id, panelID) IN
     IF ~Includes(panelTabValues, panelName)
     THEN UNCHANGED hookLog
     ELSE /\ Len(hookLog) < MaxHookCalls
          /\ hookLog' = Append(hookLog, [hook |-> "onUpdatePanelTab",
                                         args |-> <<tasks[t].id, panelID, tabContent>>])
  /\ UNCHANGED <<disabled, extensions, events, exportDataRowValues, panelTabValues,
                 sdkInitialised, emitQueue, tasks, rounds, surfaceRows, timers,
                 delivered, emitted>>

\* surface.removePanelTab(panelID): panelTabValues is not changed by the code
RemovePanelTab(t, panelID) ==
  /\ HasSurface(t)
  /\ LET panelName == getPanelTabName(tasks[t].id, panelID) IN
     IF ~Includes(panelTabValues, panelName)
     THEN UNCHANGED hookLog
     ELSE /\ Len(hookLog) < MaxHookCalls
          /\ hookLog' = Append(hookLog, [hook |-> "onRemovePanelTab",
                                         args |-> <<tasks[t].id, panelID>>])
  /\ UNCHANGED <<disabled, extensions, events, exportDataRowValues, panelTabValues,
                 sdkInitialised, emitQueue, tasks, rounds, surfaceRows, timers,
                 delivered, emitted>>

----------------------------------------------------------------------------
(* The single-listener variant (src/src/SDK.ts): no readiness, no queue; the *)
(* program is called with the host object itself.                            *)

\* programs of the single-listener variant: keep the host object and use its
\* panel tab methods, or raise an error
SinglePrograms == {"tabs", "throw"}

\* the state after `new SDK(extensions, options, callbacks)`: init() starts one
\* promise chain per extension and there is no Promise.all
SingleInit ==
  /\ disabled \in BOOLEAN
  /\ extensions \in ExtensionLists
  /\ events = [e \in EventTypes |-> <<>>]
  /\ exportDataRowValues = <<>>
  /\ panelTabValues = <<>>
  /\ sdkInitialised = FALSE
  /\ emitQueue = <<>>
  /\ tasks = IF IsDisabled THEN <<>> ELSE NewTasks(extensions, 1)
  /\ rounds = <<>>
  /\ surfaceRows = [t \in 1..Len(tasks) |-> NoSurface]
  /\ timers = <<>>
  /\ delivered = <<>>
  /\ emitted = <<>>
  /\ hookLog = <<>>

\* eval(code)(this): the program of chain t runs with the host object
SingleExecute(t) ==
  /\ CodeReady(t)
  /\ tasks' = [tasks EXCEPT ![t].st =
                 IF tasks[t].prog = "throw" THEN "threw" ELSE "done"]
  /\ surfaceRows' = [surfaceRows EXCEPT ![t] =
                 IF tasks[t].prog = "tabs"
                 THEN [has |-> TRUE, shared |-> TRUE, own |-> <<>>]
                 ELSE @]
  /\ UNCHANGED <<disabled, extensions, events, exportDataRowValues, panelTabValues,
                 sdkInitialised, emitQueue, rounds, timers, delivered, emitted,
                 hookLog>>

\* sdk.addPanelTab(extensionID, panelID, onClick) called by the program of chain t:
\* nothing is pushed to panelTabValues
SingleAddPanelTab(t, extensionID, panelID) ==
  /\ HasSurface(t)
  /\ IF Includes(panelTabValues, getPanelTabName(extensionID, panelID))
     THEN UNCHANGED hookLog
     ELSE /\ Len(hookLog) < MaxHookCalls
          /\ hookLog' = Append(hookLog, [hook |-> "onAddPanelTab",
                                         args |-> <<extensionID, panelID>>])
  /\ UNCHANGED <<disabled, extensions, events, exportDataRowValues, panelTabValues,
                 sdkInitialised, emitQueue, tasks, rounds, surfaceRows, timers,
                 delivered, emitted>>

\* sdk.removePanelTab(extensionID, panelID) called by the program of chain t
SingleRemovePanelTab(t, extensionID, panelID) ==
  /\ HasSurface(t)
  /\ IF ~Includes(panelTabValues, getPanelTabName(extensionID, panelID))
     THEN UNCHANGED hookLog
     ELSE /\ Len(hookLog) < MaxHookCalls
          /\ hookLog' = Append(hookLog, [hook |-> "onRemovePanelTab",
                                         args |-> <<extensionID, panelID>>])
  /\ UNCHANGED <<disabled, extensions, events, exportDataRowValues, panelTabValues,
                 sdkInitialised, emitQueue, tasks, rounds, surfaceRows, timers,
                 delivered, emitted>>

----------------------------------------------------------------------------
(* Specifications *)

Load ==
  \/ \E t \in 1..Len(tasks) : \E o \in {"ok", "notok", "error"} : \E p \in Programs :
       FetchSettle(t, o, p)
  \/ \E t \in 1..Len(tasks) : Execute(t)
  \/ \E r \in 1..Len(rounds) : JoinReady(r)

Bus ==
  \/ \E e \in EventTypes : EmitEvent(e, Payload(Len(emitted) + 1))
  \/ TimerFire
  \/ Destroy
  \/ \E t \in 1..Len(tasks) : \E e \in EventTypes : AddEventListener(t, e, "f")
  \/ \E t \in 1..Len(tasks) : \E e \in EventTypes : RemoveEventListener(t, e)

Next == Load \/ Bus

\* the host as constructed: the event bus and the loader
Spec == Init /\ [][Next]_vars

\* the loader and the listener registrations, with the scheduling the runtime
\* guarantees: a fetch settles and promise reactions run
Listeners ==
  \/ Destroy
  \/ \E t \in 1..Len(tasks) : \E e \in EventTypes : \E c \in Callbacks \cup {NotAFunction} :
       AddEventListener(t, e, c)
  \/ \E t \in 1..Len(tasks) : \E e \in EventTypes : RemoveEventListener(t, e)

NextLoad == Load \/ Listeners

SpecLoad == Init /\ [][NextLoad]_vars /\ WF_vars(Load)

\* _init called again on the same instance, which has at most one extension
InitOne == Init /\ Len(extensions) <= 1

Reinit ==
  \/ ReInit
  \/ \E e \in EventTypes : EmitEvent(e, Payload(Len(emitted) + 1))
  \/ TimerFire

NextReinit == Load \/ Reinit

SpecReinit == InitOne /\ [][NextReinit]_vars

\* the export data row registry as used by the extensions
Rows ==
  \/ \E t \in 1..Len(tasks) : \E n \in RowNames : AddExportDataRow(t, n)
  \/ \E t \in 1..Len(tasks) : \E n \in RowNames : RemoveExportDataRow(t, n)

NextRows == Load \/ Rows

SpecRows == Init /\ [][NextRows]_vars

\* the loader with programs that use every property of the surface object
LoadSurface ==
  \/ \E t \in 1..Len(tasks) : \E p \in SurfacePrograms : FetchSettle(t, "ok", p)
  \/ \E t \in 1..Len(tasks) : Execute(t)
  \/ \E r \in 1..Len(rounds) : JoinReady(r)

Emits ==
  \/ \E e \in EventTypes : EmitEvent(e, Payload(Len(emitted) + 1))
  \/ TimerFire

NextSurface == LoadSurface \/ Emits

SpecSurface == Init /\ [][NextSurface]_vars

\* the host and one extension around _destroy, with both registries in use
Teardown ==
  \/ Destroy
  \/ \E e \in EventTypes : EmitEvent(e, Payload(Len(emitted) + 1))
  \/ TimerFire
  \/ \E t \in 1..Len(tasks) : \E e \in EventTypes : AddEventListener(t, e, "f")
  \/ \E t \in 1..Len(tasks) : AddExportDataRow(t, "Export CSV")
  \/ \E t \in 1..Len(tasks) : AddPanelTab(t, "cc", "t1")

NextDestroy == Load \/ Teardown

SpecDestroy == InitOne /\ [][NextDestroy]_vars

\* the single-listener variant: its loader and its panel tab methods
NextSingle ==
  \/ \E t \in 1..Len(tasks) : \E o \in {"ok", "notok", "error"} : \E p \in SinglePrograms :
       FetchSettle(t, o, p)
  \/ \E t \in 1..Len(tasks) : SingleExecute(t)
  \/ \E t \in 1..Len(tasks) : \E p \in UsedPanels :
       SingleAddPanelTab(t, tasks[t].id, p)
  \/ \E t \in 1..Len(tasks) : \E p \in UsedPanels :
       SingleRemovePanelTab(t, tasks[t].id, p)

SpecSingle == SingleInit /\ [][NextSingle]_vars

\* the host's own calls while the extensions load
Loading ==
  \/ Destroy
  \/ \E e \in EventTypes : EmitEvent(e, Payload(Len(emitted) + 1))
  \/ TimerFire

NextLoading == Load \/ Loading

\* the loader and the host's calls, with the scheduling the runtime guarantees:
\* a fetch settles and promise reactions run
SpecLoading == Init /\ [][NextLoading]_vars /\ WF_vars(Load)

\* the panel tab registry as used by the extensions
Tabs ==
  \/ \E t \in 1..Len(tasks) : \E p \in UsedPanels : AddPanelTab(t, p, "t1")
  \/ \E t \in 1..Len(tasks) : \E p \in UsedPanels : \E c \in TabContents :
       UpdatePanelTab(t, p, c)
  \/ \E t \in 1..Len(tasks) : \E p \in UsedPanels : RemovePanelTab(t, p)

NextTabs == Load \/ Tabs

SpecTabs == Init /\ [][NextTabs]_vars

----------------------------------------------------------------------------
(* Helpers of the properties *)

IsPrefix(a, b) == Len(a) <= Len(b) /\ SubSeq(b, 1, Len(a)) = a

\* the payloads of a sequence of emissions, timers or deliveries
DataOf(seq) == [i \in 1..Len(seq) |-> seq[i].eventData]

\* the emissions of one event type
OfType(seq, e) == SelectSeq(seq, LAMBDA x : x.event = e)

\* the timers or deliveries of one listener
ForListener(seq, e, l) ==
  SelectSeq(seq, LAMBDA x : x.event = e /\ x.id = l.id /\ x.cb = l.cb)

\* the listener of extension id for event type e is registered
Listens(id, e) == \E i \in 1..Len(events[e]) : events[e][i].id = id

----------------------------------------------------------------------------
(* C1: while the host is not Ready no listener callback has been scheduled  *)
(* or run, and every _emitEvent call made so far sits in the pending queue, *)
(* in the order of the calls.                                               *)
C1_NoDeliveryBeforeReady ==
  ~sdkInitialised => timers = <<>> /\ delivered = <<>> /\ emitQueue = emitted

\* two events were emitted before readiness while a listener for the first is registered
C1_Witness ==
  /\ ~sdkInitialised
  /\ Len(emitQueue) = 2
  /\ Listens("a", emitQueue[1].event)

(* C2: at the readiness transition every listener registered at that moment *)
(* gets, for its event type, exactly the events emitted before readiness,   *)
(* with their payloads and in emission order, nothing is scheduled for      *)
(* anyone else, and nothing runs inside the flush; a scheduled delivery     *)
(* then runs exactly once and in scheduling order (timers are only consumed *)
(* from the front into the delivery log and extended at the back).          *)
C2_FlushInOrder ==
  [][/\ IsPrefix(delivered \o timers, delivered' \o timers')
     /\ (~sdkInitialised /\ sdkInitialised') =>
          /\ delivered' = delivered
          /\ \A e \in EventTypes : \A i \in 1..Len(events[e]) :
               DataOf(ForListener(timers', e, events[e][i])) = DataOf(OfType(emitted, e))
          /\ \A k \in 1..Len(timers') : \E i \in 1..Len(events[timers'[k].event]) :
               /\ events[timers'[k].event][i].id = timers'[k].id
               /\ events[timers'[k].event][i].cb = timers'[k].cb]_vars

\* both queued events of one type, with their different payloads, have been delivered
\* in emission order to a listener after readiness
C2_Witness ==
  /\ sdkInitialised
  /\ timers = <<>>
  /\ Len(emitted) = 2
  /\ emitted[1].event = emitted[2].event
  /\ emitted[1].eventData # emitted[2].eventData
  /\ Len(delivered) = 2
  /\ DataOf(delivered) = DataOf(emitted)
  /\ delivered[1].id = delivered[2].id

(* C3: whenever the host is Ready, the Promise.all chain of a loading round *)
(* has run its reaction with every promise chain of the round fulfilled,    *)
(* and every extension in the extension list has had its program executed.  *)
C3_ReadyAfterAllExecuted ==
  sdkInitialised =>
    /\ \E r \in 1..Len(rounds) :
         /\ rounds[r] = "joined"
         /\ \A t \in 1..Len(tasks) : tasks[t].round = r => tasks[t].st = "done"
    /\ \A i \in 1..Len(extensions) : \E t \in 1..Len(tasks) :
         tasks[t].id = extensions[i].id /\ tasks[t].st = "done"

\* the host is Ready with two listed extensions
C3_Witness == sdkInitialised /\ Len(extensions) = 2

C4_RetrievalFailureStillReady ==
  ( /\ ~disabled
    /\ \A t \in 1..Len(tasks) : tasks[t].st \in {"done", "failed"}
    /\ \A r \in 1..Len(rounds) : rounds[r] = "pending" => ~AllFulfilled(r) )
  => sdkInitialised /\ emitQueue = <<>>

\* the fetch of chain a ended in a retrieval failure of either kind
RetrievalFailed(a) == tasks[a].st = "failed" \/ tasks[a].prog = "dummy"

\* chain b has fetched a program that registers a listener, and has not run it yet
C5_Fetched(a, b) ==
  /\ Len(tasks) = 2
  /\ RetrievalFailed(a)
  /\ tasks[b].st = "code" /\ tasks[b].prog = "listen"

\* the program of chain b has run with its own surface and its listener is in the events map
C5_Executed(b) ==
  /\ Len(tasks) = 2
  /\ tasks[b].st = "done"
  /\ HasSurface(b)
  /\ Listens(tasks[b].id, "load")

(* C5: for two distinct extensions A and B, once A's fetch has failed (a    *)
(* non-success status or a transport error) and B's program text has been   *)
(* fetched, B's program is eventually executed with its own surface and its *)
(* listener registration reaches the host's events map.                     *)
C5_SiblingFailureIsolated ==
  \A a \in {1, 2} : \A b \in {1, 2} :
    a # b => (C5_Fetched(a, b) ~> C5_Executed(b))

\* A's fetch failed with a transport error and B's program ran and registered its listener
C5_Witness ==
  /\ Len(tasks) = 2
  /\ tasks[1].st = "failed"
  /\ C5_Executed(2)

(* C7: once the host is Ready it stays Ready, a further _init starts no new *)
(* loading round and no new promise chain, the pending queue stays empty,   *)
(* and a Promise.all reaction that runs when the host is already Ready (the *)
(* one of a second _init made while Loading) schedules and delivers nothing *)
(* again.                                                                   *)
C7_InitIdempotent ==
  [][sdkInitialised =>
       /\ sdkInitialised'
       /\ Len(rounds') = Len(rounds)
       /\ Len(tasks') = Len(tasks)
       /\ emitQueue' = <<>>
       /\ (rounds' # rounds => timers' = timers /\ delivered' = delivered)]_vars

\* _init was called a second time while Loading, both Promise.all reactions have
\* run, and the one queued event was delivered once to the one listener
C7_Witness ==
  /\ Len(rounds) = 2
  /\ rounds[1] = "joined" /\ rounds[2] = "joined"
  /\ Len(emitted) = 1
  /\ Len(events[emitted[1].event]) = 1
  /\ Len(delivered) = 1
  /\ timers = <<>>

\* the k-th hook invocation is hook h with first arguments args
IsHook(k, h, args) ==
  /\ hookLog[k].hook = h
  /\ SubSeq(hookLog[k].args, 1, Len(args)) = args

\* between the i-th and the j-th hook invocation hook h ran with arguments args
HookBetween(i, j, h, args) == \E k \in (i + 1)..(j - 1) : IsHook(k, h, args)

(* C8: between any two invocations of onAddExportDataRow with the same name *)
(* there is an invocation of onRemoveExportDataRow with that name.          *)
C8_UniqueRowRegistrations ==
  \A n \in RowNames : \A i \in 1..Len(hookLog) : \A j \in 1..Len(hookLog) :
    (i < j /\ IsHook(i, "onAddExportDataRow", <<n>>) /\ IsHook(j, "onAddExportDataRow", <<n>>))
    => HookBetween(i, j, "onRemoveExportDataRow", <<n>>)

(* C9: when the last hook invocation for a name is onRemoveExportDataRow,   *)
(* the name is absent from the export-row registry as every extension's     *)
(* surface sees it (so an add through any surface succeeds and a further    *)
(* remove through any surface does nothing).                                *)
C9_RemoveErasesRowName ==
  \A n \in RowNames :
    (\E k \in 1..Len(hookLog) :
        /\ IsHook(k, "onRemoveExportDataRow", <<n>>)
        /\ \A j \in (k + 1)..Len(hookLog) : hookLog[j].args # <<n>>)
    => \A t \in 1..Len(tasks) : HasSurface(t) => ~Includes(RowsOf(t), n)

\* extension identities against which the composite key is compared
IdStrings == {"a", "a-cc", "a-", "cc", "a-cc-pg", "b"}

(* C10: the composite key is distinct for distinct (identity, panel id)     *)
(* pairs; the key of (identity, panel id) is in the panel-tab registry      *)
(* exactly when onAddPanelTab was invoked for that identity and panel id,   *)
(* so an add is rejected only because of the same extension's own earlier   *)
(* add, never because of another extension's tab for the same panel; and    *)
(* onAddPanelTab is not invoked twice for one (identity, panel id) without  *)
(* an onRemovePanelTab for it in between.                                   *)
C10_CompositePanelKey ==
  /\ Cardinality({getPanelTabName(pair[1], pair[2]) : pair \in IdStrings \X PanelTab})
       = Cardinality(IdStrings \X PanelTab)
  /\ \A id \in {ExtA.id, ExtB.id} : \A p \in UsedPanels :
       Includes(panelTabValues, getPanelTabName(id, p))
         <=> \E k \in 1..Len(hookLog) : IsHook(k, "onAddPanelTab", <<id, p>>)
  /\ \A id \in {ExtA.id, ExtB.id} : \A p \in UsedPanels :
       \A i \in 1..Len(hookLog) : \A j \in 1..Len(hookLog) :
         (i < j /\ IsHook(i, "onAddPanelTab", <<id, p>>) /\ IsHook(j, "onAddPanelTab", <<id, p>>))
         => HookBetween(i, j, "onRemovePanelTab", <<id, p>>)

\* both extensions have added a tab for panel "cc", each through one hook invocation
C10_Witness ==
  /\ Includes(panelTabValues, getPanelTabName(ExtA.id, "cc"))
  /\ Includes(panelTabValues, getPanelTabName(ExtB.id, "cc"))
  /\ \E i \in 1..Len(hookLog) : IsHook(i, "onAddPanelTab", <<ExtA.id, "cc">>)
  /\ \E j \in 1..Len(hookLog) : IsHook(j, "onAddPanelTab", <<ExtB.id, "cc">>)
  /\ Len(hookLog) = 2

(* C11: when onRemovePanelTab was invoked for an (identity, panel id) and    *)
(* onAddPanelTab has not been invoked for it since, its key is absent from  *)
(* the panel-tab registry (so the same extension can add the panel id       *)
(* again, and a further removePanelTab or updatePanelTab invokes no hook).  *)
C11_RemoveErasesPanelKey ==
  \A id \in {ExtA.id, ExtB.id} : \A p \in UsedPanels :
    (\E k \in 1..Len(hookLog) :
        /\ IsHook(k, "onRemovePanelTab", <<id, p>>)
        /\ \A j \in (k + 1)..Len(hookLog) : ~IsHook(j, "onAddPanelTab", <<id, p>>))
    => ~Includes(panelTabValues, getPanelTabName(id, p))

\* the state that updatePanelTab must leave alone
C12_Frame ==
  UNCHANGED <<panelTabValues, exportDataRowValues, surfaceRows, events, emitQueue,
              sdkInitialised>>

(* C12: a call updatePanelTab(panelID, content) by an extension appends one *)
(* onUpdatePanelTab(identity, panelID, content) invocation when the key of  *)
(* (identity, panelID) is in the panel-tab registry and invokes no hook     *)
(* when it is not; a step that invokes onUpdatePanelTab is for a registered *)
(* key; and in every case the two registries, the events map, the pending   *)
(* queue and the readiness flag are unchanged.                              *)
C12_UpdateForwardsOnly ==
  [][/\ \A t \in 1..Len(tasks) : \A p \in UsedPanels : \A c \in TabContents :
          UpdatePanelTab(t, p, c) =>
            /\ C12_Frame
            /\ hookLog' =
                 IF Includes(panelTabValues, getPanelTabName(tasks[t].id, p))
                 THEN Append(hookLog, [hook |-> "onUpdatePanelTab",
                                       args |-> <<tasks[t].id, p, c>>])
                 ELSE hookLog
     /\ (/\ Len(hookLog') = Len(hookLog) + 1
         /\ hookLog'[Len(hookLog')].hook = "onUpdatePanelTab") =>
            /\ C12_Frame
            /\ Includes(panelTabValues,
                        getPanelTabName(hookLog'[Len(hookLog')].args[1],
                                        hookLog'[Len(hookLog')].args[2]))]_vars

\* a registered tab has been updated with new content
C12_Witness ==
  /\ Includes(panelTabValues, getPanelTabName(ExtA.id, "cc"))
  /\ Len(hookLog) = 2
  /\ IsHook(1, "onAddPanelTab", <<ExtA.id, "cc", "t1">>)
  /\ IsHook(2, "onUpdatePanelTab", <<ExtA.id, "cc", "t2">>)

(* C13: extension code reaches the host only through the functions of its   *)
(* surface: a callback is run only by a timer that an emit of the host      *)
(* scheduled (its payload is one the host emitted for that event type),     *)
(* onAddPanelTab is invoked only for a key that the registry operation      *)
(* recorded, and the extension list still names every extension that was    *)
(* loaded (the host was not torn down; no _destroy occurs in SpecSurface).  *)
C13_SurfaceIsolated ==
  /\ \A k \in 1..Len(delivered) : \E n \in 1..Len(emitted) :
       /\ emitted[n].event = delivered[k].event
       /\ emitted[n].eventData = delivered[k].eventData
  /\ \A k \in 1..Len(hookLog) :
       hookLog[k].hook = "onAddPanelTab" =>
         Includes(panelTabValues, getPanelTabName(hookLog[k].args[1], hookLog[k].args[2]))
  /\ \A t \in 1..Len(tasks) : \E i \in 1..Len(extensions) :
       extensions[i].id = tasks[t].id

(* C14: an _emitEvent(type, payload) made while the host is Ready appends   *)
(* exactly one timer per listener registered for that type at the call, in  *)
(* registration order, holding that listener's callback and the payload;    *)
(* it appends none for listeners of other types, runs no callback itself    *)
(* and leaves the pending queue alone. A step that neither emits nor makes  *)
(* the host Ready (a later addEventListener, for one) schedules nothing, so *)
(* a listener added after the call never receives the payload.              *)
C14_ReadyEmitDelivers ==
  [][/\ (sdkInitialised /\ emitted' # emitted) =>
          /\ emitQueue' = emitQueue
          /\ delivered' = delivered
          /\ Len(timers') = Len(timers) + Len(events[emitted'[Len(emitted')].event])
          /\ SubSeq(timers', 1, Len(timers)) = timers
          /\ \A i \in 1..Len(events[emitted'[Len(emitted')].event]) :
               timers'[Len(timers) + i] =
                 [id |-> events[emitted'[Len(emitted')].event][i].id,
                  cb |-> events[emitted'[Len(emitted')].event][i].cb,
                  event |-> emitted'[Len(emitted')].event,
                  eventData |-> emitted'[Len(emitted')].eventData]
     /\ (emitted' = emitted /\ sdkInitialised' = sdkInitialised) =>
          delivered' \o timers' = delivered \o timers]_vars

\* the second event, of type "load", has reached both "load" listeners and nobody
\* else, while a listener for "timeupdate" is registered and the first event, of
\* type "timeupdate", reached nobody
C14_Witness ==
  /\ sdkInitialised
  /\ timers = <<>>
  /\ Len(emitted) = 2
  /\ emitted[1].event = "timeupdate"
  /\ emitted[2].event = "load"
  /\ Listens(ExtA.id, "timeupdate")
  /\ Len(delivered) = 2
  /\ delivered[1].id # delivered[2].id
  /\ \A k \in 1..2 : delivered[k].event = "load" /\ delivered[k].eventData = Payload(2)

(* C15: when the host is not disabled and every promise chain has run its   *)
(* program, one of them by raising an error and the others to completion,   *)
(* the host is Ready and the events emitted before readiness have left the  *)
(* pending queue: the error of one program does not keep the host from      *)
(* becoming Ready.                                                          *)
C15_ProgramErrorStaysLocal ==
  ( /\ ~disabled
    /\ \E t \in 1..Len(tasks) : tasks[t].st = "threw"
    /\ \A t \in 1..Len(tasks) : tasks[t].st \in {"done", "threw"} )
  => sdkInitialised /\ emitQueue = <<>>

\* the callback registered for (event type, identity), or "none"
CallbackOf(evs, e, id) ==
  IF \E i \in 1..Len(evs[e]) : evs[e][i].id = id
  THEN evs[e][CHOOSE i \in 1..Len(evs[e]) : evs[e][i].id = id].cb
  ELSE "none"

\* every entry of the events map other than (e, id) is the same after the step
OtherListenersKept(e, id) ==
  \A e2 \in EventTypes : \A id2 \in {ExtA.id, ExtB.id} :
    (e2 # e \/ id2 # id) => CallbackOf(events', e2, id2) = CallbackOf(events, e2, id2)

(* C16: addEventListener(type, cb) by identity X makes cb the callback of   *)
(* (type, X) and removeEventListener(type) by X leaves (type, X) without a  *)
(* callback; both leave every other identity's listener for the type and    *)
(* every listener for other types as they were; removing when X has no      *)
(* listener for the type changes nothing; and after every step the map      *)
(* holds at most one callback per (type, identity).                         *)
C16_ListenerFrame ==
  [][/\ \A t \in 1..Len(tasks) : \A e \in EventTypes : \A c \in Callbacks :
          AddEventListener(t, e, c) =>
            /\ CallbackOf(events', e, tasks[t].id) = c
            /\ OtherListenersKept(e, tasks[t].id)
     /\ \A t \in 1..Len(tasks) : \A e \in EventTypes :
          RemoveEventListener(t, e) =>
            /\ CallbackOf(events', e, tasks[t].id) = "none"
            /\ OtherListenersKept(e, tasks[t].id)
            /\ ~Listens(tasks[t].id, e) => events' = events
     /\ \A e \in EventTypes : \A i, j \in 1..Len(events'[e]) :
          events'[e][i].id = events'[e][j].id => i = j]_vars

\* identity "a" has replaced its callback for "load" while "a-cc" kept its own,
\* and "a-cc" alone listens to "timeupdate"
C16_Witness ==
  /\ CallbackOf(events, "load", ExtA.id) = "g"
  /\ CallbackOf(events, "load", ExtB.id) = "f"
  /\ CallbackOf(events, "timeupdate", ExtA.id) = "none"
  /\ CallbackOf(events, "timeupdate", ExtB.id) = "g"

(* C17: addEventListener with a non-callable callback leaves the events map *)
(* as it was (no entry is created, an existing one is neither replaced nor  *)
(* removed), and after every step each callback held by the events map is   *)
(* callable, so an emit finds no non-callable value to schedule.            *)
C17_NonCallableIgnored ==
  [][/\ \A t \in 1..Len(tasks) : \A e \in EventTypes :
          AddEventListener(t, e, NotAFunction) => events' = events
     /\ \A e \in EventTypes : \A i \in 1..Len(events'[e]) :
          events'[e][i].cb \in Callbacks]_vars

\* the state in which the extension of chain 1 calls addEventListener with a
\* non-callable value, for a type it listens to and for a type it does not:
\* the state after the call is the same
C17_Witness ==
  /\ Len(tasks) = 1
  /\ HasSurface(1)
  /\ CallbackOf(events, "timeupdate", tasks[1].id) = "g"
  /\ events["load"] = <<>>
  /\ ENABLED AddEventListener(1, "timeupdate", NotAFunction)
  /\ ENABLED AddEventListener(1, "load", NotAFunction)

(* C18: a delivery that was scheduled is never withdrawn: removeEventListener *)
(* and _destroy leave the pending timers and the deliveries made as they are *)
(* (each timer keeps the callback and the payload it captured), and in any   *)
(* step a pending timer either stays pending or becomes the next delivery.   *)
C18_NoWithdrawal ==
  [][/\ \A t \in 1..Len(tasks) : \A e \in EventTypes :
          RemoveEventListener(t, e) => timers' = timers /\ delivered' = delivered
     /\ Destroy => timers' = timers /\ delivered' = delivered
     /\ (events' # events) => timers' = timers /\ delivered' = delivered
     /\ \/ /\ delivered' = delivered
           /\ IsPrefix(timers, timers')
        \/ /\ timers # <<>>
           /\ delivered' = Append(delivered, Head(timers))
           /\ timers' = Tail(timers)]_vars

\* after _destroy, one of the two deliveries of an event is still pending, for a
\* listener that is no longer in the events map, and the other one has been made
C18_Witness ==
  /\ Len(tasks) = 2
  /\ extensions = <<>>
  /\ \A e \in EventTypes : events[e] = <<>>
  /\ Len(emitted) = 1
  /\ Len(timers) = 1
  /\ Len(delivered) = 1
  /\ timers[1].id # delivered[1].id
  /\ timers[1].eventData = Payload(1)

\* what _destroy does: the events map and the extension list become empty and
\* every other field of the host keeps its value
C19_DestroyEffect ==
  /\ \A e \in EventTypes : events'[e] = <<>>
  /\ extensions' = <<>>
  /\ UNCHANGED <<exportDataRowValues, panelTabValues, emitQueue, sdkInitialised,
                 disabled, timers, delivered, hookLog>>

(* C19: a _destroy step empties the events map and the extension list and   *)
(* leaves the export-row registry, the panel-tab registry, the pending      *)
(* queue and the readiness flag as they were (and it is the only step that  *)
(* changes the extension list); an emit on a Ready host whose events map is *)
(* empty schedules and runs no callback.                                    *)
C19_DestroyFrame ==
  [][/\ Destroy => C19_DestroyEffect
     /\ (extensions' # extensions) => C19_DestroyEffect
     /\ (/\ sdkInitialised
         /\ \A e \in EventTypes : events[e] = <<>>
         /\ emitted' # emitted) => timers' = timers /\ delivered' = delivered]_vars

\* a Ready host with both registries in use was destroyed after its first event
\* had been scheduled for the "load" listener; the second "load" event, emitted
\* after _destroy, reached nobody
C19_Witness ==
  /\ sdkInitialised
  /\ Len(tasks) = 1
  /\ extensions = <<>>
  /\ \A e \in EventTypes : events[e] = <<>>
  /\ exportDataRowValues = <<"Export CSV">>
  /\ panelTabValues = <<getPanelTabName(ExtA.id, "cc")>>
  /\ Len(emitted) = 2
  /\ emitted[1].event = "load" /\ emitted[2].event = "load"
  /\ timers = <<>>
  /\ Len(delivered) = 1
  /\ delivered[1].eventData = Payload(1)

(* C20: in the single-listener variant, between any two invocations of      *)
(* onAddPanelTab for the same (extensionID, panelID) pair there is an       *)
(* invocation of onRemovePanelTab for that pair: a pair that is registered  *)
(* is not added a second time.                                              *)
C20_SingleUniquePanelTabs ==
  \A id \in {ExtA.id, ExtB.id} : \A p \in UsedPanels :
    \A i \in 1..Len(hookLog) : \A j \in 1..Len(hookLog) :
      (i < j /\ IsHook(i, "onAddPanelTab", <<id, p>>) /\ IsHook(j, "onAddPanelTab", <<id, p>>))
        => HookBetween(i, j, "onRemovePanelTab", <<id, p>>)

(* C21: after every step, a Ready host has an empty pending queue; a step   *)
(* taken by a Ready host (a _destroy and an emit for a type without         *)
(* listener included) leaves it Ready and appends nothing to the queue.     *)
(* The host is not Ready initially, so Ready implies an empty queue in      *)
(* every reachable state.                                                   *)
C21_ReadyIsStable ==
  [][/\ sdkInitialised' => emitQueue' = <<>>
     /\ sdkInitialised => sdkInitialised' /\ emitQueue' = emitQueue
     /\ (sdkInitialised /\ emitted' # emitted) =>
          Len(timers') = Len(timers) + Len(events[emitted'[Len(emitted')].event])]_vars

\* a destroyed host is still Ready with an empty queue: its "load" event was
\* delivered, and the "timeupdate" event, which had no listener, is neither
\* queued nor scheduled
C21_Witness ==
  /\ sdkInitialised
  /\ emitQueue = <<>>
  /\ Len(tasks) = 1
  /\ extensions = <<>>
  /\ Len(emitted) = 2
  /\ emitted[1].event = "load"
  /\ emitted[2].event = "timeupdate"
  /\ timers = <<>>
  /\ Len(delivered) = 1
  /\ delivered[1].event = "load"

(* C22: for each listener (identity and event type), the payloads delivered *)
(* so far are in the order in which the host emitted them, whether an event *)
(* was queued before readiness or emitted after it, each is the payload of  *)
(* an emitted event of that type, and none is delivered twice (a payload    *)
(* carries the number of its emission, so the order is the numeric one).    *)
C22_DeliveryInEmissionOrder ==
  /\ \A i \in 1..Len(delivered) : \A j \in 1..Len(delivered) :
       (i < j /\ delivered[i].id = delivered[j].id /\ delivered[i].event = delivered[j].event)
         => delivered[i].eventData < delivered[j].eventData
  /\ \A i \in 1..Len(delivered) :
       /\ delivered[i].eventData \in 1..Len(emitted)
       /\ emitted[delivered[i].eventData].event = delivered[i].event

\* the first event has been delivered to the listener and the second event, emitted
\* later for the same type, is scheduled for the same listener behind it
C22_Witness ==
  /\ sdkInitialised
  /\ Len(emitted) = 2
  /\ Len(delivered) = 1
  /\ Len(timers) = 1
  /\ delivered[1].eventData = Payload(1)
  /\ timers[1].eventData = Payload(2)
  /\ delivered[1].id = timers[1].id
  /\ delivered[1].event = timers[1].event

\* the host was destroyed and is not Ready, and every load that was started has
\* fetched its code successfully or has run it without raising an error
C23_DestroyedWhileLoading ==
  /\ ~sdkInitialised
  /\ Len(tasks) > 0
  /\ extensions = <<>>
  /\ \A t \in 1..Len(tasks) :
       /\ tasks[t].st \in {"code", "done"}
       /\ tasks[t].prog # "throw"

(* C23: a _destroy leaves the promise chains, the Promise.all round, the     *)
(* pending queue and the readiness flag as they were; when a destroyed host *)
(* becomes Ready, each listener registered at that moment (by a program     *)
(* that ran after the destroy) is scheduled exactly the queued events of    *)
(* its type, in emission order; and a host destroyed while its loads are    *)
(* healthy does become Ready.                                               *)
C23_DestroyKeepsLoading ==
  /\ [][/\ Destroy => UNCHANGED <<tasks, rounds, emitQueue, sdkInitialised, surfaceRows>>
        /\ (extensions' # extensions) =>
             UNCHANGED <<tasks, rounds, emitQueue, sdkInitialised, surfaceRows>>
        /\ (extensions = <<>> /\ ~sdkInitialised /\ sdkInitialised') =>
             /\ emitQueue' = <<>>
             /\ \A e \in EventTypes : \A i \in 1..Len(events[e]) :
                  DataOf(ForListener(timers', e, events[e][i])) = DataOf(OfType(emitted, e))]_vars
  /\ C23_DestroyedWhileLoading ~> sdkInitialised

\* the host was destroyed while loading, both programs ran afterwards and registered
\* their listeners, the host became Ready, and the event queued before readiness
\* has been delivered to both listeners
C23_Witness ==
  /\ sdkInitialised
  /\ extensions = <<>>
  /\ Len(tasks) = 2
  /\ Listens(ExtA.id, "load") /\ Listens(ExtB.id, "load")
  /\ Len(emitted) = 1
  /\ emitted[1].event = "load"
  /\ emitQueue = <<>>
  /\ timers = <<>>
  /\ Len(delivered) = 2
  /\ delivered[1].id # delivered[2].id

====
